---- MODULE Spec2Model ----
(***************************************************************************)
(* PIDTester (src/widget.py): a Qt widget whose UI thread edits the gains  *)
(* and the setpoint of a PID controller while a pool thread (Worker        *)
(* running Serial.calc) steps the controller every 100 ms and appends the  *)
(* process value and the setpoint to two pglive DataConnectors.            *)
(*                                                                         *)
(* Numbers.  Python floats are modelled as exact decimals with four        *)
(* fractional digits, stored as integers in units of 1/Scale (0.1 is 1000, *)
(* 10.0 is 100000).  Every term pid_calc adds is round(x, 4), so           *)
(* current_value, error and dt_error are multiples of that unit whenever   *)
(* the setpoint is.  round() is round-half-to-even on the exact quotient.  *)
(*                                                                         *)
(* Threads.  Two threads share the process: the UI thread (one Qt slot at  *)
(* a time, position upc) and the pool thread (position wpc).  A thread     *)
(* takes one step per access to a variable the other thread touches        *)
(* (_alive, setpoint, Kp, Ki, Kd, the two DataConnectors).                 *)
(***************************************************************************)
EXTENDS Integers, Sequences, FiniteSets, TLC

\* round(x, 4): four decimals, the unit of the fixed-point model
Scale == 10000

\* DataConnector(max_points=150): how much history a connector keeps
MaxPoints == 150

\* bounds of the model
MaxIter == 2
MaxApply == 1
MaxIterLong == 153

\* Widget sessions constructed one after another in one process
MaxSessions == 2

----------------------------------------------------------------------------
(* Arithmetic                                                              *)

Min(a, b) == IF a < b THEN a ELSE b

\* round(n / d) for d > 0, ties to the even neighbour (Python's round)
RoundHalfEven(n, d) ==
    LET q == n \div d
        r == n - q * d
    IN  IF 2 * r < d THEN q
        ELSE IF 2 * r > d THEN q + 1
        ELSE IF q % 2 = 0 THEN q ELSE q + 1

\* round(float(gain * x), 4) with gain and x = num/den in units of 1/Scale
RoundedProduct(gain, num, den) == RoundHalfEven(gain * num, Scale * den)

\* int(x): truncation toward zero of a value in units of 1/Scale
IntOf(v) == IF v >= 0 THEN v \div Scale ELSE -((-v) \div Scale)

----------------------------------------------------------------------------
(* float(text) on the text of a line edit.  A text is a sequence of        *)
(* one-character strings.  Accepted: an optional sign, digits with at most *)
(* one point and at least one digit.  Everything else is ValueError (the   *)
(* input texts of the model use no exponent, blank, inf or nan).           *)

Digits == {"0", "1", "2", "3", "4", "5", "6", "7", "8", "9"}

DigitVal(c) ==
    CASE c = "0" -> 0 [] c = "1" -> 1 [] c = "2" -> 2 [] c = "3" -> 3
      [] c = "4" -> 4 [] c = "5" -> 5 [] c = "6" -> 6 [] c = "7" -> 7
      [] c = "8" -> 8 [] c = "9" -> 9

RECURSIVE DigitsValue(_)
DigitsValue(s) ==
    IF s = <<>> THEN 0
    ELSE 10 * DigitsValue(SubSeq(s, 1, Len(s) - 1)) + DigitVal(s[Len(s)])

RECURSIVE Pow10(_)
Pow10(k) == IF k = 0 THEN 1 ELSE 10 * Pow10(k - 1)

Unsigned(t) ==
    IF t # <<>> /\ t[1] \in {"+", "-"} THEN SubSeq(t, 2, Len(t)) ELSE t

IsFloatText(t) ==
    LET u == Unsigned(t)
        dots == {k \in 1..Len(u) : u[k] = "."}
    IN  /\ \A k \in 1..Len(u) : u[k] \in Digits \cup {"."}
        /\ Cardinality(dots) <= 1
        /\ \E k \in 1..Len(u) : u[k] \in Digits

ParseFloat(t) ==
    IF ~IsFloatText(t) THEN [ok |-> FALSE, val |-> 0]
    ELSE
      LET u == Unsigned(t)
          dots == {k \in 1..Len(u) : u[k] = "."}
          dot == IF dots = {} THEN Len(u) + 1 ELSE CHOOSE k \in dots : TRUE
          whole == SubSeq(u, 1, dot - 1)
          frac == SubSeq(u, dot + 1, Len(u))
          mag == DigitsValue(whole) * Scale
                   + (DigitsValue(frac) * Scale) \div Pow10(Len(frac))
      IN  [ok |-> TRUE, val |-> IF t[1] = "-" THEN -mag ELSE mag]

\* the texts a user leaves in the four line edits when pressing "send values"
T_0 == <<"0">>
T_0_1 == <<"0", ".", "1">>
T_0_5 == <<"0", ".", "5">>
T_0_2 == <<"0", ".", "2">>
T_0_0001 == <<"0", ".", "0", "0", "0", "1">>
T_10 == <<"1", "0">>
T_1 == <<"1">>
T_m3 == <<"-", "3">>
T_abc == <<"a", "b", "c">>
T_empty == <<>>

FieldInputs ==
    { [p |-> T_0_1, i |-> T_0,   d |-> T_0_0001, sp |-> T_10],
      [p |-> T_0_5, i |-> T_0_2, d |-> T_0,      sp |-> T_m3],
      [p |-> T_abc, i |-> T_0,   d |-> T_0,      sp |-> T_0],
      [p |-> T_0_5, i |-> T_0_2, d |-> T_0,      sp |-> T_empty] }

----------------------------------------------------------------------------
VARIABLES
    alive,          \* global _alive
    setpoint,       \* global setpoint
    Kp, Ki, Kd,     \* pid_control gains
    current_value,  \* pid_control.current_value
    cycle,          \* pid_control.cycle
    error,          \* pid_control.error
    dt_error,       \* pid_control.dt_error
    wpc,            \* pool thread: position in Worker.run / Serial.calc / pid_calc
    target,         \* pid_calc: _target
    c,              \* pid_calc: _c
    sink_pv,        \* parent.data_connector_pv: retained samples
    sink_sp,        \* parent.data_connector_sp: retained samples
    signals,        \* WorkerSignals emitted by Worker.run, in order
    upc,            \* UI thread: position in the running slot
    sp_text,        \* send_values: the SetPoint_value_txt text it will read
    params,         \* send_values: params
    uiRes,          \* how the last finished slot ended
    printed,        \* what the last finished slot printed
    \* history variables (read by the properties only)
    iters,          \* completed iterations of the calc loop
    hist_pv,        \* samples appended to data_connector_pv since its last clear
    hist_sp,        \* samples appended to data_connector_sp since its last clear
    npv, nsp,       \* appends to each connector since construction
    cleared,        \* whether clear_graph has begun since construction
    used,           \* gains read by calc_p, calc_i, calc_d in the current pid_calc
    pre,            \* current_value, dt_error, cycle when the current pid_calc began
    triples,        \* gain triples the controller was given as a whole
    applies,        \* send_values slots that reached set_new_params
    svPre,          \* gains and setpoint when the last send_values began
    stable,         \* the last completed send_values, while no later one has begun storing
    iterStable,     \* stable when the current iteration began
    \* the session and the function the Worker wraps
    session,        \* Widget sessions constructed so far in this process
    connection,     \* Serial.connection: "unset" (never assigned), "open", "broken" or "closed"
    rx,             \* how the last try body of recv ended
    fnOutcome       \* Worker.run: how self.fn(...) ended, "running" until it has

vars == <<alive, setpoint, Kp, Ki, Kd, current_value, cycle, error, dt_error,
          wpc, target, c, sink_pv, sink_sp, signals, upc, sp_text, params,
          uiRes, printed, iters, hist_pv, hist_sp, npv, nsp, cleared, used,
          pre, triples, applies, svPre, stable, iterStable, session,
          connection, rx, fnOutcome>>

pidVars == <<current_value, cycle, error, dt_error, target, c>>
gainVars == <<Kp, Ki, Kd>>
sinkVars == <<sink_pv, sink_sp, hist_pv, hist_sp, npv, nsp, cleared>>
uiVars == <<upc, sp_text, params, uiRes, printed, svPre>>
applyVars == <<triples, applies, stable>>
extVars == <<session, connection, rx, fnOutcome>>

NoApply == [epoch |-> 0, gains |-> <<0, 0, 0>>, sp |-> 0]

\* recv has not been through its try body
NoRx == [exc |-> "none", at |-> "none"]

\* pid_control() defaults: _kp=0.1, _ki=0, _kd=0.0001
DefaultGains == <<Scale \div 10, 0, 1>>

\* The state when Widget.__init__ returns: the connectors exist and are empty,
\* the controller is fresh, the Worker was handed to the pool.
Init ==
    /\ alive = TRUE
    /\ setpoint = 0
    /\ Kp = DefaultGains[1] /\ Ki = DefaultGains[2] /\ Kd = DefaultGains[3]
    /\ current_value = 0
    /\ cycle = 1
    /\ error = 0
    /\ dt_error = 0
    /\ wpc = "test"
    /\ target = 0
    /\ c = 0
    /\ sink_pv = <<>>
    /\ sink_sp = <<>>
    /\ signals = <<>>
    /\ upc = "idle"
    /\ sp_text = T_empty
    /\ params = DefaultGains
    /\ uiRes = "none"
    /\ printed = "none"
    /\ iters = 0
    /\ hist_pv = <<>>
    /\ hist_sp = <<>>
    /\ npv = 0 /\ nsp = 0
    /\ cleared = FALSE
    /\ used = DefaultGains
    /\ pre = [cv |-> 0, dt |-> 0, cycle |-> 1]
    /\ triples = {DefaultGains}
    /\ applies = 0
    /\ svPre = <<DefaultGains[1], DefaultGains[2], DefaultGains[3], 0>>
    /\ stable = NoApply
    /\ iterStable = NoApply
    /\ session = 1
    /\ connection = "unset"
    /\ rx = NoRx
    /\ fnOutcome = "running"

----------------------------------------------------------------------------
(* pid_control                                                             *)

\* calc_p with the sign of the error turned round
calc_p_Negated(kp, err) == RoundedProduct(kp, 0 - err, 1)

calc_p(kp, err) == RoundedProduct(kp, err, 1)

calc_i(ki, dt) == RoundedProduct(ki, dt, 1)

\* calc_d applied to dt_error itself, the division by cycle forgotten
calc_d_NoCycle(kd, num, den) == RoundedProduct(kd, num, 1)

\* calc_d(temp) with temp = num / den
calc_d(kd, num, den) == RoundedProduct(kd, num, den)

\* a connector created without max_points: nothing is ever evicted
cb_append_data_point_Unbounded(buf, y) == Append(buf, y)

\* the rolling buffer of a DataConnector: the newest max_points samples
cb_append_data_point(buf, y) ==
    IF Len(buf) < MaxPoints THEN Append(buf, y)
    ELSE Append(SubSeq(buf, 2, Len(buf)), y)

----------------------------------------------------------------------------
(* The pool thread: Worker.run -> Serial.calc -> pid_control.pid_calc      *)

\* while _alive:
CalcLoopTest(maxIter) ==
    /\ wpc = "test"
    /\ IF alive
       THEN /\ iters < maxIter
            /\ wpc' = "call"
            /\ iterStable' = stable
            /\ UNCHANGED fnOutcome
       ELSE /\ wpc' = "return"
            /\ fnOutcome' = "returned"
            /\ UNCHANGED iterStable
    /\ UNCHANGED <<alive, setpoint, gainVars, pidVars, sinkVars, signals,
                   uiVars, applyVars, iters, used, pre, session, connection, rx>>

\* the setpoint read once, before the loop, instead of on every iteration
PidCalcEnter_StaleTarget ==
    /\ wpc = "call"
    /\ target' = target
    /\ c' = 0
    /\ error' = target - current_value
    /\ pre' = [cv |-> current_value, dt |-> dt_error, cycle |-> cycle]
    /\ wpc' = "p"
    /\ UNCHANGED <<alive, setpoint, gainVars, current_value, cycle, dt_error,
                   sinkVars, signals, uiVars, applyVars, iters, used, iterStable>>
    /\ UNCHANGED extVars

\* pid_calc(setpoint): _c = 0; self.error = _target - self.current_value
PidCalcEnter ==
    /\ wpc = "call"
    /\ target' = setpoint
    /\ c' = 0
    /\ error' = setpoint - current_value
    /\ pre' = [cv |-> current_value, dt |-> dt_error, cycle |-> cycle]
    /\ wpc' = "p"
    /\ UNCHANGED <<alive, setpoint, gainVars, current_value, cycle, dt_error,
                   sinkVars, signals, uiVars, applyVars, iters, used, iterStable>>
    /\ UNCHANGED extVars

\* _c += self.calc_p()
PidCalcP ==
    /\ wpc = "p"
    /\ c' = c + calc_p(Kp, error)
    /\ used' = [used EXCEPT ![1] = Kp]
    /\ wpc' = "i"
    /\ UNCHANGED <<alive, setpoint, gainVars, current_value, cycle, error,
                   dt_error, target, sinkVars, signals, uiVars, applyVars,
                   iters, pre, iterStable>>
    /\ UNCHANGED extVars

\* self.dt_error += self.error; _c += self.calc_i()
PidCalcI ==
    /\ wpc = "i"
    /\ dt_error' = dt_error + error
    /\ c' = c + calc_i(Ki, dt_error')
    /\ used' = [used EXCEPT ![2] = Ki]
    /\ wpc' = "d"
    /\ UNCHANGED <<alive, setpoint, gainVars, current_value, cycle, error,
                   target, sinkVars, signals, uiVars, applyVars, iters, pre,
                   iterStable>>
    /\ UNCHANGED extVars

\* pid_calc without its last line, self.cycle += 1
PidCalcD_NoIncrement ==
    /\ wpc = "d"
    /\ c' = c + calc_d(Kd, dt_error, cycle)
    /\ current_value' = current_value + c'
    /\ used' = [used EXCEPT ![3] = Kd]
    /\ wpc' = "append_pv"
    /\ UNCHANGED <<alive, setpoint, gainVars, cycle, error, dt_error, target,
                   sinkVars, signals, uiVars, applyVars, iters, pre, iterStable>>
    /\ UNCHANGED extVars

\* temp = self.dt_error / self.cycle; _c += self.calc_d(temp);
\* self.current_value += _c; self.cycle += 1
PidCalcD ==
    /\ wpc = "d"
    /\ c' = c + calc_d(Kd, dt_error, cycle)
    /\ current_value' = current_value + c'
    /\ cycle' = cycle + 1
    /\ used' = [used EXCEPT ![3] = Kd]
    /\ wpc' = "append_pv"
    /\ UNCHANGED <<alive, setpoint, gainVars, error, dt_error, target,
                   sinkVars, signals, uiVars, applyVars, iters, pre, iterStable>>
    /\ UNCHANGED extVars

\* self.parent.data_connector_pv.cb_append_data_point(self.pid_controller.pv())
CalcAppendPv ==
    /\ wpc = "append_pv"
    /\ sink_pv' = cb_append_data_point(sink_pv, IntOf(current_value))
    /\ hist_pv' = Append(hist_pv, IntOf(current_value))
    /\ npv' = npv + 1
    /\ wpc' = "append_sp"
    /\ UNCHANGED <<alive, setpoint, gainVars, pidVars, sink_sp, hist_sp, nsp,
                   cleared, signals, uiVars, applyVars, iters, used, pre,
                   iterStable>>
    /\ UNCHANGED extVars

\* calc without the append to data_connector_sp
CalcAppendSp_NoAppend ==
    /\ wpc = "append_sp"
    /\ iters' = iters + 1
    /\ wpc' = "test"
    /\ UNCHANGED <<alive, setpoint, gainVars, pidVars, sinkVars, signals,
                   uiVars, applyVars, used, pre, iterStable>>
    /\ UNCHANGED extVars

\* self.parent.data_connector_sp.cb_append_data_point(setpoint); time.sleep(.1)
CalcAppendSp ==
    /\ wpc = "append_sp"
    /\ sink_sp' = cb_append_data_point(sink_sp, setpoint)
    /\ hist_sp' = Append(hist_sp, setpoint)
    /\ nsp' = nsp + 1
    /\ iters' = iters + 1
    /\ wpc' = "test"
    /\ UNCHANGED <<alive, setpoint, gainVars, pidVars, sink_pv, hist_pv, npv,
                   cleared, signals, uiVars, applyVars, used, pre, iterStable>>
    /\ UNCHANGED extVars

\* calc leaves through an exception: int(self.current_value) in pv() raises
\* OverflowError for an infinite and ValueError for a nan process value
\* (float() accepts the texts "inf", "nan" and "1e999"; 0 * inf is nan).
\* Such values are outside the fixed-point numbers carried here, so the
\* raise is a choice open at every pv() call.
CalcRaises ==
    /\ wpc = "append_pv"
    /\ fnOutcome' = "raised"
    /\ wpc' = "except"
    /\ UNCHANGED <<alive, setpoint, gainVars, pidVars, sinkVars, signals, uiVars,
                   applyVars, iters, used, pre, iterStable, session, connection,
                   rx>>

\* the except branch with the finally clause left out
WorkerError_NoFinished ==
    /\ wpc = "except"
    /\ signals' = Append(signals, "error")
    /\ wpc' = "done"
    /\ UNCHANGED <<alive, setpoint, gainVars, pidVars, sinkVars, uiVars,
                   applyVars, iters, used, pre, iterStable>>
    /\ UNCHANGED extVars

\* Worker.run, except: traceback.print_exc(); self.signals.error.emit(...)
WorkerError ==
    /\ wpc = "except"
    /\ signals' = Append(signals, "error")
    /\ wpc' = "finally"
    /\ UNCHANGED <<alive, setpoint, gainVars, pidVars, sinkVars, uiVars,
                   applyVars, iters, used, pre, iterStable>>
    /\ UNCHANGED extVars

\* Worker.run, else: self.signals.result.emit(result)
WorkerResult ==
    /\ wpc = "return"
    /\ signals' = Append(signals, "result")
    /\ wpc' = "finally"
    /\ UNCHANGED <<alive, setpoint, gainVars, pidVars, sinkVars, uiVars,
                   applyVars, iters, used, pre, iterStable>>
    /\ UNCHANGED extVars

\* Worker.run, finally: self.signals.finished.emit()
WorkerFinished ==
    /\ wpc = "finally"
    /\ signals' = Append(signals, "finished")
    /\ wpc' = "done"
    /\ UNCHANGED <<alive, setpoint, gainVars, pidVars, sinkVars, uiVars,
                   applyVars, iters, used, pre, iterStable>>
    /\ UNCHANGED extVars

----------------------------------------------------------------------------
(* The UI thread: the slots of Widget                                      *)

\* send_values: params = (float(P), float(I), float(D)); a ValueError leaves
\* the slot before set_new_params is called
SendValuesParse(f) ==
    /\ upc = "idle"
    /\ applies < MaxApply
    /\ svPre' = <<Kp, Ki, Kd, setpoint>>
    /\ LET p == ParseFloat(f.p)
           i == ParseFloat(f.i)
           d == ParseFloat(f.d)
       IN  IF p.ok /\ i.ok /\ d.ok
           THEN /\ params' = <<p.val, i.val, d.val>>
                /\ sp_text' = f.sp
                /\ triples' = triples \cup {<<p.val, i.val, d.val>>}
                /\ applies' = applies + 1
                /\ stable' = NoApply
                /\ upc' = "set_Kp"
                /\ UNCHANGED <<uiRes, printed>>
           ELSE /\ uiRes' = "ValueError"
                /\ printed' = "none"
                /\ UNCHANGED <<params, sp_text, triples, applies, stable,
                               upc>>
    /\ UNCHANGED <<alive, setpoint, gainVars, pidVars, sinkVars, signals, wpc,
                   iters, used, pre, iterStable>>
    /\ UNCHANGED extVars

\* set_new_params: self.Kp, self.Ki, self.Kd = params (three attribute stores)
SetNewParamsKp ==
    /\ upc = "set_Kp"
    /\ Kp' = params[1]
    /\ upc' = "set_Ki"
    /\ UNCHANGED <<alive, setpoint, Ki, Kd, pidVars, sinkVars, signals, wpc,
                   sp_text, params, uiRes, printed, svPre, applyVars, iters,
                   used, pre, iterStable>>
    /\ UNCHANGED extVars

SetNewParamsKi ==
    /\ upc = "set_Ki"
    /\ Ki' = params[2]
    /\ upc' = "set_Kd"
    /\ UNCHANGED <<alive, setpoint, Kp, Kd, pidVars, sinkVars, signals, wpc,
                   sp_text, params, uiRes, printed, svPre, applyVars, iters,
                   used, pre, iterStable>>
    /\ UNCHANGED extVars

\* set_new_params that also clears the accumulated error
SetNewParamsKd_ResetIntegral ==
    /\ upc = "set_Kd"
    /\ Kd' = params[3]
    /\ dt_error' = 0
    /\ upc' = "set_sp"
    /\ UNCHANGED <<alive, setpoint, Kp, Ki, current_value, cycle, error, target,
                   c, sinkVars, signals, wpc, sp_text, params, uiRes, printed,
                   svPre, applyVars, iters, used, pre, iterStable>>
    /\ UNCHANGED extVars

SetNewParamsKd ==
    /\ upc = "set_Kd"
    /\ Kd' = params[3]
    /\ upc' = "set_sp"
    /\ UNCHANGED <<alive, setpoint, Kp, Ki, pidVars, sinkVars, signals, wpc,
                   sp_text, params, uiRes, printed, svPre, applyVars, iters,
                   used, pre, iterStable>>
    /\ UNCHANGED extVars

\* send_values: setpoint = float(self.ui.SetPoint_value_txt.text())
SendValuesSetpoint ==
    /\ upc = "set_sp"
    /\ LET s == ParseFloat(sp_text)
       IN  IF s.ok
           THEN /\ setpoint' = s.val
                /\ uiRes' = "ok"
                /\ stable' = [epoch |-> applies, gains |-> params, sp |-> s.val]
           ELSE /\ uiRes' = "ValueError"
                /\ UNCHANGED <<setpoint, stable>>
    /\ printed' = "none"
    /\ params' = DefaultGains
    /\ sp_text' = T_empty
    /\ upc' = "idle"
    /\ UNCHANGED <<alive, gainVars, pidVars, sinkVars, signals, wpc, svPre,
                   triples, applies, iters, used, pre, iterStable>>
    /\ UNCHANGED extVars

\* send that clears the shutdown flag as well
SerialSend_Shutdown(msg) ==
    /\ upc = "idle"
    /\ printed' = msg
    /\ alive' = FALSE
    /\ uiRes' = "AttributeError"
    /\ UNCHANGED <<setpoint, gainVars, pidVars, sinkVars, signals, wpc,
                   upc, sp_text, params, svPre, applyVars, iters, used, pre,
                   iterStable>>
    /\ UNCHANGED extVars

\* send_start / send_pause / send_stop -> Serial.send(msg): msg += "\n";
\* print(msg); self.connection.write(...): AttributeError with no connection
\* attribute, an exception of the port once it is closed
SerialSend(msg) ==
    /\ upc = "idle"
    /\ printed' = msg
    /\ uiRes' = CASE connection = "unset" -> "AttributeError"
                  [] connection = "open" -> "ok"
                  [] connection \in {"closed", "broken"} -> "SerialException"
    /\ UNCHANGED <<alive, setpoint, gainVars, pidVars, sinkVars, signals, wpc,
                   upc, sp_text, params, svPre, applyVars, iters, used, pre,
                   iterStable>>
    /\ UNCHANGED extVars

send_start == SerialSend("start\n")

send_pause == SerialSend("pause\n")

send_stop == SerialSend("stop\n")

\* clear_graph: self.data_connector_pv.clear()
ClearGraphPv ==
    /\ upc = "idle"
    /\ sink_pv' = <<>>
    /\ hist_pv' = <<>>
    /\ cleared' = TRUE
    /\ upc' = "clear_sp"
    /\ UNCHANGED <<alive, setpoint, gainVars, pidVars, sink_sp, hist_sp, npv,
                   nsp, signals, wpc, sp_text, params, uiRes, printed, svPre,
                   applyVars, iters, used, pre, iterStable>>
    /\ UNCHANGED extVars

\* clear_graph: self.data_connector_sp.clear()
ClearGraphSp ==
    /\ upc = "clear_sp"
    /\ sink_sp' = <<>>
    /\ hist_sp' = <<>>
    /\ uiRes' = "ok"
    /\ printed' = "none"
    /\ upc' = "idle"
    /\ UNCHANGED <<alive, setpoint, gainVars, pidVars, sink_pv, hist_pv, npv,
                   nsp, cleared, signals, wpc, sp_text, params, svPre,
                   applyVars, iters, used, pre, iterStable>>
    /\ UNCHANGED extVars

\* closeEvent -> Serial.close: _alive = False
CloseSetFlag ==
    /\ upc = "idle"
    /\ alive' = FALSE
    /\ upc' = "close_conn"
    /\ UNCHANGED <<setpoint, gainVars, pidVars, sinkVars, signals, wpc, sp_text,
                   params, uiRes, printed, svPre, applyVars, iters, used, pre,
                   iterStable>>
    /\ UNCHANGED extVars

\* Serial.close: self.connection.close() -- the assignment of self.connection
\* sits inside a string literal, so the attribute lookup raises AttributeError,
\* which leaves close and closeEvent; the window is gone afterwards.  With a
\* connection the port is closed and close returns.
CloseConnection ==
    /\ upc = "close_conn"
    /\ IF connection = "unset"
       THEN /\ uiRes' = "AttributeError"
            /\ UNCHANGED connection
       ELSE /\ uiRes' = "ok"
            /\ connection' = "closed"
    /\ printed' = "none"
    /\ upc' = "closed"
    /\ UNCHANGED <<alive, setpoint, gainVars, pidVars, sinkVars, signals, wpc,
                   sp_text, params, svPre, applyVars, iters, used, pre,
                   iterStable, session, rx, fnOutcome>>

----------------------------------------------------------------------------
WorkerStep ==
    \/ PidCalcEnter
    \/ PidCalcP
    \/ PidCalcI
    \/ PidCalcD
    \/ CalcAppendPv
    \/ CalcAppendSp
    \/ WorkerResult
    \/ WorkerFinished

Next ==
    \/ CalcLoopTest(MaxIter)
    \/ WorkerStep
    \/ \E f \in FieldInputs : SendValuesParse(f)
    \/ SetNewParamsKp
    \/ SetNewParamsKi
    \/ SetNewParamsKd
    \/ SendValuesSetpoint
    \/ send_start
    \/ send_pause
    \/ send_stop
    \/ ClearGraphPv
    \/ ClearGraphSp
    \/ CloseSetFlag
    \/ CloseConnection

Spec == Init /\ [][Next]_vars

\* The pool thread is an OS thread: it keeps being scheduled.
WorkerNext == CalcLoopTest(MaxIter) \/ WorkerStep

FairSpec == Spec /\ WF_vars(WorkerNext)

----------------------------------------------------------------------------
(* Long runs of the loop, for what happens once a connector is full: the   *)
(* user has applied one set of values (or none) before the first           *)
(* iteration and then only closes the window.                              *)

AppliedInputs ==
    {f \in FieldInputs : /\ ParseFloat(f.p).ok /\ ParseFloat(f.i).ok
                         /\ ParseFloat(f.d).ok /\ ParseFloat(f.sp).ok}

LongInit ==
    \/ Init
    \/ \E f \in AppliedInputs :
         LET g == <<ParseFloat(f.p).val, ParseFloat(f.i).val, ParseFloat(f.d).val>>
             s == ParseFloat(f.sp).val
         IN  /\ alive = TRUE
             /\ setpoint = s
             /\ Kp = g[1] /\ Ki = g[2] /\ Kd = g[3]
             /\ current_value = 0
             /\ cycle = 1
             /\ error = 0
             /\ dt_error = 0
             /\ wpc = "test"
             /\ target = 0
             /\ c = 0
             /\ sink_pv = <<>>
             /\ sink_sp = <<>>
             /\ signals = <<>>
             /\ upc = "idle"
             /\ sp_text = T_empty
             /\ params = DefaultGains
             /\ uiRes = "ok"
             /\ printed = "none"
             /\ iters = 0
             /\ hist_pv = <<>>
             /\ hist_sp = <<>>
             /\ npv = 0 /\ nsp = 0
             /\ cleared = FALSE
             /\ used = DefaultGains
             /\ pre = [cv |-> 0, dt |-> 0, cycle |-> 1]
             /\ triples = {DefaultGains, g}
             /\ applies = 1
             /\ svPre = <<DefaultGains[1], DefaultGains[2], DefaultGains[3], 0>>
             /\ stable = [epoch |-> 1, gains |-> g, sp |-> s]
             /\ iterStable = NoApply
             /\ session = 1
             /\ connection = "unset"
             /\ rx = NoRx
             /\ fnOutcome = "running"

LongNext ==
    \/ CalcLoopTest(MaxIterLong)
    \/ WorkerStep
    \/ CloseSetFlag
    \/ CloseConnection

LongSpec == LongInit /\ [][LongNext]_vars

----------------------------------------------------------------------------
(* Retuning a running loop: the user has applied one set of values before  *)
(* the first iteration and from then on only applies values and closes the *)
(* window; applies counts the send_values calls made from here on.         *)

RetuneInit ==
    \E f \in AppliedInputs :
      LET g == <<ParseFloat(f.p).val, ParseFloat(f.i).val, ParseFloat(f.d).val>>
          s == ParseFloat(f.sp).val
      IN  /\ alive = TRUE
          /\ setpoint = s
          /\ Kp = g[1] /\ Ki = g[2] /\ Kd = g[3]
          /\ current_value = 0
          /\ cycle = 1
          /\ error = 0
          /\ dt_error = 0
          /\ wpc = "test"
          /\ target = 0
          /\ c = 0
          /\ sink_pv = <<>>
          /\ sink_sp = <<>>
          /\ signals = <<>>
          /\ upc = "idle"
          /\ sp_text = T_empty
          /\ params = DefaultGains
          /\ uiRes = "ok"
          /\ printed = "none"
          /\ iters = 0
          /\ hist_pv = <<>>
          /\ hist_sp = <<>>
          /\ npv = 0 /\ nsp = 0
          /\ cleared = FALSE
          /\ used = DefaultGains
          /\ pre = [cv |-> 0, dt |-> 0, cycle |-> 1]
          /\ triples = {DefaultGains, g}
          /\ applies = 0
          /\ svPre = <<DefaultGains[1], DefaultGains[2], DefaultGains[3], 0>>
          /\ stable = [epoch |-> 0, gains |-> g, sp |-> s]
          /\ iterStable = NoApply
          /\ session = 1
          /\ connection = "unset"
          /\ rx = NoRx
          /\ fnOutcome = "running"

RetuneNext ==
    \/ CalcLoopTest(MaxIter)
    \/ WorkerStep
    \/ \E f \in FieldInputs : SendValuesParse(f)
    \/ SetNewParamsKp
    \/ SetNewParamsKi
    \/ SetNewParamsKd
    \/ SendValuesSetpoint
    \/ CloseSetFlag
    \/ CloseConnection

RetuneSpec == RetuneInit /\ [][RetuneNext]_vars

----------------------------------------------------------------------------
(* The user only presses Start, Pause and Stop while the loop runs, and    *)
(* closes the window.                                                      *)

CommandNext ==
    \/ CalcLoopTest(MaxIter)
    \/ WorkerStep
    \/ send_start
    \/ send_pause
    \/ send_stop
    \/ CloseSetFlag
    \/ CloseConnection

CommandSpec == LongInit /\ [][CommandNext]_vars

CommandFairSpec == CommandSpec /\ WF_vars(WorkerNext)

----------------------------------------------------------------------------
(* Worker.run around calc, with both ways calc can end.                    *)

RunWorkerNext ==
    \/ CalcLoopTest(MaxIterLong)
    \/ WorkerStep
    \/ CalcRaises
    \/ WorkerError

RunNext ==
    \/ RunWorkerNext
    \/ CloseSetFlag
    \/ CloseConnection

RunSpec == LongInit /\ [][RunNext]_vars

RunFairSpec == RunSpec /\ WF_vars(RunWorkerNext)

----------------------------------------------------------------------------
(* Serial.recv, the loop of the variant that reads frames from the serial  *)
(* line.  Widget starts Worker(self.calc); here the Worker wraps recv.     *)
(* The connection is "unset" as the module stands and "open" when the      *)
(* serial.Serial(...) construction in Serial.__init__ is in force.         *)

\* json.loads on the frames a line can carry here: an integer, or an object
\* with one string key and an integer value, written without blanks;
\* anything else (the empty line of a read timeout included) does not decode
IsIntText(t) ==
    LET u == IF t # <<>> /\ t[1] = "-" THEN SubSeq(t, 2, Len(t)) ELSE t
    IN  /\ u # <<>>
        /\ \A k \in 1..Len(u) : u[k] \in Digits
        /\ (Len(u) > 1 => u[1] # "0")

IntTextValue(t) ==
    IF t[1] = "-" THEN 0 - DigitsValue(SubSeq(t, 2, Len(t))) ELSE DigitsValue(t)

JsonLoads(t) ==
    LET quotes == {k \in 1..Len(t) : t[k] = "\""}
        fail == [ok |-> FALSE, kind |-> "none", key |-> <<>>, val |-> 0]
    IN  IF IsIntText(t)
        THEN [ok |-> TRUE, kind |-> "int", key |-> <<>>, val |-> IntTextValue(t)]
        ELSE IF /\ Len(t) >= 6
                /\ t[1] = "{" /\ t[Len(t)] = "}" /\ t[2] = "\""
                /\ Cardinality(quotes) = 2
                /\ \E q \in quotes : /\ q > 2 /\ q + 2 <= Len(t) - 1
                                      /\ t[q + 1] = ":"
                                      /\ IsIntText(SubSeq(t, q + 2, Len(t) - 1))
             THEN LET q == CHOOSE k \in quotes : k > 2
                  IN  [ok |-> TRUE, kind |-> "obj", key |-> SubSeq(t, 3, q - 1),
                       val |-> IntTextValue(SubSeq(t, q + 2, Len(t) - 1))]
             ELSE fail

F_timeout == <<>>
F_pos_cnt == <<"{", "\"", "p", "o", "s", "_", "c", "n", "t", "\"", ":", "7", "}">>
F_no_pos_cnt == <<"{", "\"", "x", "\"", ":", "7", "}">>
F_number == <<"4", "2">>
F_cut == <<"{", "\"", "p", "o", "s", "_", "c", "n", "t", "\"", ":">>

RxFrames == {F_timeout, F_pos_cnt, F_no_pos_cnt, F_number, F_cut}

\* the try body of recv on one line: where it stops and with which exception.
\* self.connection is looked up first; a closed or broken port raises in
\* readline; json.loads raises on what does not decode; after print(msg)
\* the callee self.parent.data_connector is evaluated before msg["pos_cnt"],
\* and Widget has data_connector_sp and data_connector_pv but no
\* data_connector
RecvTry(line) ==
    CASE connection = "unset" -> [exc |-> "AttributeError", at |-> "connection"]
      [] connection \in {"broken", "closed"} ->
             [exc |-> "SerialException", at |-> "readline"]
      [] connection = "open" /\ ~JsonLoads(line).ok ->
             [exc |-> "JSONDecodeError", at |-> "loads"]
      [] connection = "open" /\ JsonLoads(line).ok ->
             [exc |-> "AttributeError", at |-> "data_connector"]

\* recv: while _alive
RecvLoopTest ==
    /\ wpc = "r_test"
    /\ IF alive
       THEN /\ wpc' = "r_read"
            /\ UNCHANGED fnOutcome
       ELSE /\ wpc' = "return"
            /\ fnOutcome' = "returned"
    /\ UNCHANGED <<alive, setpoint, gainVars, pidVars, sinkVars, signals,
                   uiVars, applyVars, iters, used, pre, iterStable, session,
                   connection, rx>>

\* recv without its except clause: the exception leaves the loop
RecvFrame_Propagate(line) ==
    /\ wpc = "r_read"
    /\ rx' = RecvTry(line)
    /\ fnOutcome' = "raised"
    /\ wpc' = "except"
    /\ UNCHANGED <<alive, setpoint, gainVars, pidVars, sinkVars, signals,
                   uiVars, applyVars, iters, used, pre, iterStable, session,
                   connection>>

\* recv: try: ... except Exception as e: pass -- one pass through the body
RecvFrame(line) ==
    /\ wpc = "r_read"
    /\ rx' = RecvTry(line)
    /\ wpc' = "r_test"
    /\ UNCHANGED <<alive, setpoint, gainVars, pidVars, sinkVars, signals,
                   uiVars, applyVars, iters, used, pre, iterStable, session,
                   connection, fnOutcome>>

\* the serial line goes away under an open port (the device is unplugged):
\* every readline raises from then on
LinkFails ==
    /\ connection = "open"
    /\ connection' = "broken"
    /\ UNCHANGED <<alive, setpoint, gainVars, pidVars, sinkVars, signals, wpc,
                   uiVars, applyVars, iters, used, pre, iterStable, session,
                   rx, fnOutcome>>

RecvInit ==
    /\ alive = TRUE
    /\ setpoint = 0
    /\ Kp = DefaultGains[1] /\ Ki = DefaultGains[2] /\ Kd = DefaultGains[3]
    /\ current_value = 0
    /\ cycle = 1
    /\ error = 0
    /\ dt_error = 0
    /\ wpc = "r_test"
    /\ target = 0
    /\ c = 0
    /\ sink_pv = <<>>
    /\ sink_sp = <<>>
    /\ signals = <<>>
    /\ upc = "idle"
    /\ sp_text = T_empty
    /\ params = DefaultGains
    /\ uiRes = "none"
    /\ printed = "none"
    /\ iters = 0
    /\ hist_pv = <<>>
    /\ hist_sp = <<>>
    /\ npv = 0 /\ nsp = 0
    /\ cleared = FALSE
    /\ used = DefaultGains
    /\ pre = [cv |-> 0, dt |-> 0, cycle |-> 1]
    /\ triples = {DefaultGains}
    /\ applies = 0
    /\ svPre = <<DefaultGains[1], DefaultGains[2], DefaultGains[3], 0>>
    /\ stable = NoApply
    /\ iterStable = NoApply
    /\ session = 1
    /\ connection \in {"unset", "open"}
    /\ rx = NoRx
    /\ fnOutcome = "running"

RecvWorkerNext ==
    \/ RecvLoopTest
    \/ \E line \in RxFrames : RecvFrame(line)
    \/ WorkerResult
    \/ WorkerFinished

RecvNext ==
    \/ RecvWorkerNext
    \/ LinkFails
    \/ send_start
    \/ send_pause
    \/ send_stop
    \/ ClearGraphPv
    \/ ClearGraphSp
    \/ CloseSetFlag
    \/ CloseConnection

RecvSpec == RecvInit /\ [][RecvNext]_vars

RecvFairSpec == RecvSpec /\ WF_vars(RecvWorkerNext)

----------------------------------------------------------------------------
(* The step response: gains and target were applied once, before the first *)
(* iteration, and stay fixed while the loop runs.                          *)

TuneInputs ==
    { [p |-> T_0_1, i |-> T_0,   d |-> T_0_0001, sp |-> T_10],
      [p |-> T_0_5, i |-> T_0_2, d |-> T_0,      sp |-> T_m3],
      [p |-> T_0_5, i |-> T_0_2, d |-> T_0,      sp |-> T_10],
      [p |-> T_0_1, i |-> T_0_0001, d |-> T_0_0001, sp |-> T_10],
      [p |-> T_0_1, i |-> T_0,   d |-> T_0,      sp |-> T_10],
      [p |-> T_0_5, i |-> T_0,   d |-> T_0,      sp |-> T_m3],
      [p |-> T_1,   i |-> T_0,   d |-> T_0,      sp |-> T_10] }

PidInit ==
    \E f \in TuneInputs :
      LET g == <<ParseFloat(f.p).val, ParseFloat(f.i).val, ParseFloat(f.d).val>>
          s == ParseFloat(f.sp).val
      IN  /\ alive = TRUE
          /\ setpoint = s
          /\ Kp = g[1] /\ Ki = g[2] /\ Kd = g[3]
          /\ current_value = 0
          /\ cycle = 1
          /\ error = 0
          /\ dt_error = 0
          /\ wpc = "test"
          /\ target = 0
          /\ c = 0
          /\ sink_pv = <<>>
          /\ sink_sp = <<>>
          /\ signals = <<>>
          /\ upc = "idle"
          /\ sp_text = T_empty
          /\ params = DefaultGains
          /\ uiRes = "ok"
          /\ printed = "none"
          /\ iters = 0
          /\ hist_pv = <<>>
          /\ hist_sp = <<>>
          /\ npv = 0 /\ nsp = 0
          /\ cleared = FALSE
          /\ used = DefaultGains
          /\ pre = [cv |-> 0, dt |-> 0, cycle |-> 1]
          /\ triples = {DefaultGains, g}
          /\ applies = 1
          /\ svPre = <<DefaultGains[1], DefaultGains[2], DefaultGains[3], 0>>
          /\ stable = [epoch |-> 1, gains |-> g, sp |-> s]
          /\ iterStable = NoApply
          /\ session = 1
          /\ connection = "unset"
          /\ rx = NoRx
          /\ fnOutcome = "running"

PidSpec == PidInit /\ [][LongNext]_vars

----------------------------------------------------------------------------
(* A second session in the same process: Widget() builds a new Serial, a   *)
(* new pid_control, new connectors and starts a new Worker(self.calc).     *)
(* The module globals _alive and setpoint are not touched by either        *)
(* constructor; nothing in the module ever assigns _alive = True again.    *)

NewSession ==
    /\ upc = "closed"
    /\ wpc = "done"
    /\ session < MaxSessions
    /\ session' = session + 1
    \* pid_control.__init__
    /\ Kp' = DefaultGains[1] /\ Ki' = DefaultGains[2] /\ Kd' = DefaultGains[3]
    /\ current_value' = 0
    /\ cycle' = 1
    /\ error' = 0
    /\ dt_error' = 0
    /\ target' = 0
    /\ c' = 0
    \* graph_setup: two new DataConnectors
    /\ sink_pv' = <<>>
    /\ sink_sp' = <<>>
    /\ hist_pv' = <<>>
    /\ hist_sp' = <<>>
    /\ npv' = 0 /\ nsp' = 0
    /\ cleared' = FALSE
    \* Worker(self.calc); threadpool.start(worker)
    /\ wpc' = "test"
    /\ signals' = <<>>
    /\ fnOutcome' = "running"
    /\ iters' = 0
    \* the new window
    /\ upc' = "idle"
    /\ sp_text' = T_empty
    /\ params' = DefaultGains
    /\ uiRes' = "none"
    /\ printed' = "none"
    /\ used' = DefaultGains
    /\ pre' = [cv |-> 0, dt |-> 0, cycle |-> 1]
    /\ triples' = {DefaultGains}
    /\ svPre' = <<DefaultGains[1], DefaultGains[2], DefaultGains[3], setpoint>>
    /\ stable' = NoApply
    /\ iterStable' = NoApply
    /\ UNCHANGED <<alive, setpoint, applies, connection, rx>>

SessionNext == Next \/ NewSession

SessionSpec == Init /\ [][SessionNext]_vars

----------------------------------------------------------------------------
(* Properties                                                              *)

\* how many times the Worker has emitted error
ErrorCount == Cardinality({k \in 1..Len(signals) : signals[k] = "error"})

\* the process value v lies between its start 0 and the target t
NotPast(t, v) == IF t >= 0 THEN v <= t ELSE v >= t

\* |target - process value|
Distance(t, v) == IF t >= v THEN t - v ELSE v - t

\* the pool thread has left the while loop of calc
LoopExited == wpc \in {"return", "finally", "done"}

\* pid_calc has just returned: every term of this call has been read and added
StepDone == wpc = "append_pv"

\* the calc loop is between two iterations
AtBoundary == wpc = "test"

LastN(h, n) == IF Len(h) <= n THEN h ELSE SubSeq(h, Len(h) - n + 1, Len(h))

\* C1: every pid_calc step computes its P, I and D terms from one and the
\* same gain triple: the gains a finished step has read are a triple the
\* controller was given as a whole (the initial one, or the params of one
\* set_new_params call), never a mix of two.
C1_OneGainTriple == StepDone => used \in triples

\* C2: send_values is all-or-nothing: when the slot ends with a ValueError
\* (one of the four texts is no number), Kp, Ki, Kd and the setpoint are what
\* they were when the slot began.
C2_AllOrNothing ==
    (upc = "idle" /\ uiRes = "ValueError") => <<Kp, Ki, Kd, setpoint>> = svPre

\* C3: teardown does not finish while the worker is still inside its loop: in
\* every state where control has left Serial.close, the worker has seen the
\* flag and left the loop.
C3_TeardownWaitsForWorker == upc = "closed" => LoopExited

\* C4: once _alive is False the loop eventually exits, no new iteration
\* begins after the flag was set, and no exception leaves the session:
\* Worker.run emits no error and close does not raise.
C4_CleanShutdown ==
    /\ [](~alive => <>LoopExited)
    /\ [][(~alive /\ wpc = "test") => wpc' # "call"]_vars
    /\ [](\A k \in 1..Len(signals) : signals[k] # "error")
    /\ [](upc = "closed" => uiRes # "AttributeError")

\* C5: cycle is 1 at creation, grows by exactly 1 on every pid_calc call (on
\* the step that ends the call), is changed by nothing else, and is at least
\* 1 whenever pid_calc divides by it.
C5_CycleCount ==
    /\ cycle = 1
    /\ [](cycle >= 1)
    /\ [](wpc = "d" => cycle >= 1)
    /\ [](cycle = 1 + iters + (IF wpc \in {"append_pv", "append_sp"} THEN 1 ELSE 0))
    /\ [][cycle' = IF wpc = "d" /\ wpc' = "append_pv" THEN cycle + 1 ELSE cycle]_vars

C5_Witness == wpc = "d" /\ cycle = 2 /\ dt_error # 0 /\ Kd # 0

\* C6: a pid_calc(target) call that began with (pv, integral, cycle) and read
\* the gains (Kp, Ki, Kd) leaves error = target - pv, integral' = integral +
\* error and pv' = pv + round(Kp*error, 4) + round(Ki*integral', 4) +
\* round(Kd*(integral'/cycle), 4); the process value changes only on the one
\* step that ends a pid_calc call and the integral only inside pid_calc.
C6_StepFormula ==
    /\ [](StepDone =>
            LET e == target - pre.cv
                integral == pre.dt + e
            IN  /\ error = e
                /\ dt_error = integral
                /\ current_value = pre.cv
                      + RoundHalfEven(used[1] * e, Scale)
                      + RoundHalfEven(used[2] * integral, Scale)
                      + RoundHalfEven(used[3] * integral, Scale * pre.cycle))
    /\ [][/\ (current_value' # current_value => wpc = "d" /\ wpc' = "append_pv")
          /\ (dt_error' # dt_error => wpc = "i" /\ wpc' = "d")]_vars

C6_Witness ==
    /\ StepDone
    /\ pre.cycle = 2
    /\ pre.cv # 0
    /\ used[1] # 0 /\ used[2] # 0
    /\ current_value # pre.cv

\* C7: the stop action resets the engine: the step that runs send_stop leaves
\* current_value = 0, dt_error = 0 and cycle = 1.
C7_StopResets ==
    [][send_stop => (current_value' = 0 /\ dt_error' = 0 /\ cycle' = 1)]_vars

\* C8: every completed iteration of calc has made exactly one pid_calc step
\* and one append to each connector: between iterations the numbers of steps
\* and of appends to each connector equal the number of iterations n, and
\* with no clear each connector retains min(n, 150) samples.
C8_OneSamplePerIteration ==
    AtBoundary =>
        /\ cycle = iters + 1
        /\ npv = iters
        /\ nsp = iters
        /\ ~cleared => /\ Len(sink_pv) = Min(iters, MaxPoints)
                       /\ Len(sink_sp) = Min(iters, MaxPoints)

C8_Witness ==
    /\ AtBoundary
    /\ iters = MaxPoints + 2
    /\ npv = MaxPoints + 2
    /\ Len(sink_pv) = MaxPoints
    /\ Len(sink_sp) = MaxPoints

\* C9: each connector is a FIFO ring of 150 samples: it never holds more than
\* 150, and it holds the last 150 of the samples appended since its last
\* clear (all of them while there are fewer), in the order of the appends.
C9_RingBuffer ==
    /\ Len(sink_pv) <= MaxPoints
    /\ Len(sink_sp) <= MaxPoints
    /\ sink_pv = LastN(hist_pv, MaxPoints)
    /\ sink_sp = LastN(hist_sp, MaxPoints)

C9_Witness ==
    /\ Len(hist_pv) = MaxPoints + 2
    /\ Len(hist_sp) = MaxPoints + 2
    /\ hist_pv[1] # hist_pv[3]
    /\ sink_pv[1] = hist_pv[3]
    /\ sink_pv[MaxPoints] = hist_pv[MaxPoints + 2]

\* C10: an iteration that began after a send_values had completed, and during
\* which no later send_values has begun to store, calls pid_calc with that
\* send_values' setpoint as target and reads that send_values' gains.
C10_UpdateTakesEffect ==
    (StepDone /\ iterStable.epoch > 0 /\ stable = iterStable) =>
        /\ target = iterStable.sp
        /\ used = iterStable.gains

C10_Witness ==
    /\ StepDone
    /\ iterStable.epoch > 0
    /\ stable = iterStable
    /\ iters >= 1
    /\ target # 0
    /\ used # DefaultGains

\* C11: tearing a session down never stops a later session's worker -- the
\* worker of a session constructed after an earlier teardown is still in its
\* loop until that session's own close has begun.
C11_SessionsIndependent ==
    (session > 1 /\ LoopExited) => upc \in {"close_conn", "closed"}

\* C12: set_new_params changes only Kp, Ki and Kd: each of its three stores
\* leaves current_value, dt_error, error and cycle as they were.
C12_SetGainsFrame ==
    [][(upc \in {"set_Kp", "set_Ki", "set_Kd"} /\ upc' # upc)
         => /\ current_value' = current_value
            /\ dt_error' = dt_error
            /\ error' = error
            /\ cycle' = cycle]_vars

\* set_new_params has just returned on a controller that had run: the
\* process value, the accumulated error, the last error and the cycle
\* counter are all away from their initial values
C12_Witness ==
    /\ upc = "set_sp"
    /\ current_value # 0 /\ dt_error # 0 /\ error # 0 /\ cycle > 1
    /\ <<Kp, Ki, Kd>> = params /\ params # stable.gains

\* C13: start, pause and stop neither suspend nor terminate the worker loop:
\* the three slots leave the shutdown flag and the worker's position alone,
\* while the flag is set the worker always has a next step to take, and from
\* any state with the flag set and k iterations begun it goes on to begin
\* another one unless the window is closed first.
C13_PauseStopDoNotStopLoop ==
    /\ [][(send_start \/ send_pause \/ send_stop)
            => (alive' = alive /\ wpc' = wpc /\ iters' = iters)]_vars
    /\ []((alive /\ iters < MaxIter) => ENABLED WorkerNext)
    /\ \A k \in 0..(MaxIter - 1) :
         (alive /\ iters = k) ~> (~alive \/ iters > k)

\* pause or stop was the last button pressed, the flag is still set and the
\* worker has completed all its iterations with a target that is not zero
C13_Witness ==
    /\ printed \in {"pause\n", "stop\n"}
    /\ alive
    /\ iters = MaxIter /\ wpc = "test"
    /\ current_value # 0

\* C17: within one iteration of calc the value appended to the setpoint
\* connector is the target that was passed to pid_calc in that iteration,
\* whatever send_values does in between.
C17_SampleIsStepTarget ==
    (AtBoundary /\ iters > 0 /\ hist_sp # <<>>)
        => hist_sp[Len(hist_sp)] = target

\* C18: at every iteration boundary, with no clear_graph half done, the two
\* connectors hold the same number of samples.
C18_SinksSameLength ==
    (AtBoundary /\ upc # "clear_sp") => Len(sink_pv) = Len(sink_sp)

\* C19: every execution of Worker.run emits exactly one of result and error
\* -- result when the wrapped function returned, error when it raised -- and
\* then finished, exactly once and last; run always gets to its end.
C19_RunSignals ==
    /\ [](signals \in {<<>>, <<"result">>, <<"error">>,
                       <<"result", "finished">>, <<"error", "finished">>})
    /\ [](wpc = "done"
           => \/ fnOutcome = "returned" /\ signals = <<"result", "finished">>
              \/ fnOutcome = "raised" /\ signals = <<"error", "finished">>)
    /\ [](wpc # "done" => (Len(signals) <= 1 /\ (signals # <<>> => wpc = "finally")))
    /\ (fnOutcome # "running") ~> (wpc = "done")

\* run is over after calc raised in a later iteration than the first
C19_Witness ==
    /\ wpc = "done" /\ fnOutcome = "raised" /\ iters > 1
    /\ signals = <<"error", "finished">>

\* C14: when every read fails while the session is alive (no connection, or
\* the line is gone), recv leaves its loop, the worker ends and exactly one
\* error signal has been emitted -- unless the session is torn down first.
C14_FatalTransportStops ==
    (alive /\ connection \in {"unset", "broken"})
        ~> (~alive \/ (wpc = "done" /\ ErrorCount = 1))

\* C15: a pass through the try body of recv that ends in an exception is
\* swallowed: the connectors, the signals, the flag, the controller and the
\* setpoint are unchanged and the loop is back at its test; no error is ever
\* emitted; and a read is only begun after the flag was tested and found set.
C15_FrameFailureSwallowed ==
    /\ [][(wpc = "r_read" /\ wpc' # wpc)
            => /\ rx'.exc # "none"
               /\ wpc' = "r_test"
               /\ UNCHANGED <<sink_pv, sink_sp, signals, alive, setpoint,
                              gainVars, pidVars, fnOutcome>>]_vars
    /\ [](ErrorCount = 0)
    /\ [][(wpc' = "r_read" /\ wpc # wpc') => (wpc = "r_test" /\ alive)]_vars

\* a frame without pos_cnt went through the try body on an open port, the
\* loop has tested the flag again and is in its next read
C15_Witness ==
    /\ wpc = "r_read" /\ alive /\ connection = "open"
    /\ rx = [exc |-> "AttributeError", at |-> "data_connector"]
    /\ sink_pv = <<>> /\ sink_sp = <<>> /\ signals = <<>>

============================================================================
